---------------------------- MODULE Spec2Model ----------------------------
(***************************************************************************)
(* The consensus observer of consensus/src/consensus_observer/observer.rs: *)
(* the observer core (ordered blocks, commit decisions, block payloads,    *)
(* sync-completion notifications), the commit callback run by the          *)
(* execution pipeline, and the state sync job spawned by a commit decision.*)
(*                                                                         *)
(* A block is a record [epoch, round, id, parent]; an ordered block is     *)
(* keyed by the (epoch, round) of its last block, `id` is the id of its    *)
(* last block and `parent` the parent_id of its first block. The genuine   *)
(* chain is the blocks the validators signed: block (e, r) has id          *)
(* GenId(e, r) and its parent is the block before it. A block id is the    *)
(* hash of the block, so a forged block (any block off the chain) has an   *)
(* id that no genuine block has: ForgedId stands for all of them. The id   *)
(* in a commit decision or in a block payload is a plain field, which a    *)
(* peer can set to any value. A forged proof fails every signature check.  *)
(* An epoch state is identified with its epoch (0 is None).                *)
(***************************************************************************)
EXTENDS Integers, Sequences, FiniteSets, TLC

\* ------------------------------------------------------------- bounds
MaxEpoch == 2
MaxRound == 3
MaxJobs == 2
MaxFinalized == 3
MaxPayloads == 1
MaxMessages == 4
MaxPeers == 3
MaxTicks == 2

\* Configuration: ConsensusObserverConfig.max_pending_blocks
max_pending_blocks == 3
\* Configuration: ConsensusObserverConfig.max_concurrent_subscriptions
max_concurrent_subscriptions == 2

Epochs == 1..MaxEpoch
\* peer network ids; 0 is None
Peers == 1..MaxPeers
Rounds == 1..MaxRound

ForgedId == 0
GenId(e, r) == (e - 1) * MaxRound + r + 1
GenuineIds == 2..(MaxEpoch * MaxRound + 1)
Ids == {ForgedId} \cup (1..(MaxEpoch * MaxRound + 1))

\* A quorum of the epoch's validators signed exactly the genuine chain
Genuine(li) == li.id = GenId(li.epoch, li.round)
GenuineBlock(b) == Genuine(b) /\ b.parent = b.id - 1

\* OrderedBlock messages: wf is the outcome of verify_ordered_blocks
OrderedBlocks ==
    {b \in [epoch : Epochs, round : Rounds, id : Ids, parent : Ids, wf : BOOLEAN] :
        GenuineBlock(b) \/ b.id = ForgedId}
\* CommitDecision messages (a LedgerInfoWithSignatures)
\* its id is the genuine one of its (epoch, round), or a forged one: a made-up id
\* or the id of the block the observer started from
ForgedDecisionIds == {ForgedId, GenId(1, 1)}
CommitDecisions ==
    {cd \in [epoch : Epochs, round : Rounds, id : Ids] :
        Genuine(cd) \/ cd.id \in ForgedDecisionIds}

KeyLt(a, b) == a.epoch < b.epoch \/ (a.epoch = b.epoch /\ a.round < b.round)
KeyLeq(a, b) == a.epoch < b.epoch \/ (a.epoch = b.epoch /\ a.round <= b.round)
SameKey(a, b) == a.epoch = b.epoch /\ a.round = b.round

VARIABLES
    pc,               \* position of the observer task: "start", "run", "forwarding", or
                      \* "wait_epoch": process_sync_notification has called end_epoch
                      \* and awaits wait_for_epoch_start
    epoch_state,      \* self.epoch_state (the epoch; 0 is None)
    prev_epoch_state, \* current_epoch_state, the local of process_sync_notification
    root,             \* self.root
    block_payload_store,     \* ids of the blocks whose payload is stored
    pending_ordered_blocks,  \* set of entries, at most one per (epoch, round)
    sync_handle,      \* index in jobs of the guarded sync job; 0 is None
    jobs,             \* the sync jobs spawned so far: target and state ("running",
                      \* "aborted", "done", or "honored" once its notification passed
                      \* the root check)
    notifications,    \* the sync notification channel: (epoch, round), with the job
                      \* that sent it and the result of its sync_to
    reconfig,         \* epoch of the latest unread reconfig notification; 0 is none
    db_epoch,         \* epoch of the latest ledger info in storage
    finalized,        \* the calls of execution_client.finalize_order, in order
    forwarded,        \* the commit decisions passed to execution_client.send_commit_msg
    committed,        \* number of finalized blocks the pipeline is done with
    cb,               \* the commit callback being run: its position and arguments
    messages,         \* number of direct-send messages processed so far
    warned,           \* the last step, when its input had to be dropped: why, the peer
                      \* the input came from, the peer the step issued an Unsubscribe
                      \* request to, and whether the input was a block or a decision
                      \* of the current epoch that is malformed or carries a forged
                      \* proof (NoDrop when it had not)
    tick,             \* the last step, when it was a progress tick: what it found and
                      \* the Subscribe RPCs it sent (NoTick when it was not)
    active_observer_subscription,  \* the peer of the active subscription; 0 is None
    ticks,            \* number of progress ticks so far
    config,           \* consensus_observer_config (publisher_enabled, observer_enabled)
                      \* and whether consensus_publisher is Some
    inbound           \* the last step, when it took a network message on the request
                      \* path or in the forwarding loop: the peer, the kind of message
                      \* and whether it was handed to the publisher (NoInbound otherwise)

vars == <<pc, epoch_state, prev_epoch_state, root, block_payload_store,
          pending_ordered_blocks, sync_handle, jobs, notifications, reconfig,
          db_epoch, finalized, forwarded, committed, cb, messages, warned,
          tick, active_observer_subscription, ticks, config, inbound>>

\* the subscription state, which the observer core leaves alone
sub_vars == <<active_observer_subscription, ticks, config>>

NoLedgerInfo == [epoch |-> 0, round |-> 0, id |-> 0]
IdleCallback == [pc |-> 0, block |-> 0, li |-> NoLedgerInfo]
NoDrop == [why |-> "none", peer |-> 0, unsubscribe |-> 0, invalid |-> FALSE]
NoTick == [previous |-> 0, failed |-> FALSE, error |-> "Ok", subscribers |-> {},
           sent |-> <<>>, acked |-> {}]
NoInbound == [peer |-> 0, kind |-> "none", forwarded |-> FALSE]

\* the configurations: the two flags of ConsensusObserverConfig that start()
\* reads, and the consensus_publisher argument of new()
Configs == [publisher_enabled : BOOLEAN, observer_enabled : BOOLEAN,
            consensus_publisher : BOOLEAN]
\* an observer that is not a publisher
ObserverConfig ==
    [publisher_enabled |-> FALSE, observer_enabled |-> TRUE, consensus_publisher |-> FALSE]

\* ConsensusObserver::new: root is the latest ledger info of storage, and the
\* first reconfiguration notification is of the epoch storage is in: the
\* epoch of root, or the next one when root is the last block of its epoch
StartingPoints ==
    {[root |-> [epoch |-> 1, round |-> 1, id |-> GenId(1, 1)], epoch |-> 1],
     [root |-> [epoch |-> 1, round |-> MaxRound, id |-> GenId(1, MaxRound)], epoch |-> 2]}

InitState ==
    /\ pc = "start"
    /\ epoch_state = 0
    /\ prev_epoch_state = 0
    /\ \E s \in StartingPoints :
         /\ root = s.root
         /\ reconfig = s.epoch
         /\ db_epoch = s.epoch
    /\ block_payload_store = {}
    /\ pending_ordered_blocks = {}
    /\ sync_handle = 0
    /\ jobs = <<>>
    /\ notifications = <<>>
    /\ finalized = <<>>
    /\ forwarded = {}
    /\ committed = 0
    /\ cb = IdleCallback
    /\ messages = 0
    /\ warned = NoDrop
    /\ tick = NoTick
    /\ active_observer_subscription = 0
    /\ ticks = 0
    /\ inbound = NoInbound

Init == InitState /\ config = ObserverConfig

\* the observer constructed with any configuration
ConfigInit == InitState /\ config \in Configs


\* ------------------------------------------------- signature verification
\* EpochState::verify: the ledger info is of the verifier's epoch and a quorum
\* of that epoch's validators signed it
VerifyOrderedProof(es, blk) == blk.epoch = es /\ GenuineBlock(blk)
VerifyCommitProof(es, cd) == cd.epoch = es /\ Genuine(cd)

\* ------------------------------------------------- payload store
InsertBlockPayload(store, id) == store \cup {id}
AllPayloadsExist(store, entry) == entry.id \in store
RemoveBlocks(store, id) == store \ {id}

\* ------------------------------------------------- pending blocks
LedgerInfoOf(x) == [epoch |-> x.epoch, round |-> x.round, id |-> x.id]

PendingEntry(blk, verified, es) ==
    [epoch |-> blk.epoch, round |-> blk.round, id |-> blk.id, parent |-> blk.parent,
     verified |-> verified, ves |-> IF verified THEN es ELSE 0, cd |-> FALSE]

\* the entry of the highest (epoch, round)
GetLastPendingBlock(P) == CHOOSE x \in P : \A y \in P : KeyLeq(y, x)

\* idempotent on the key: an entry is replaced only by one that raises
\* verified from false to true; a full buffer drops the new block
InsertOrderedBlock(P, blk, verified, es) ==
    LET old == {x \in P : SameKey(x, blk)} IN
    IF old # {}
    THEN IF verified /\ \A x \in old : ~x.verified
         THEN (P \ old) \cup {PendingEntry(blk, verified, es)}
         ELSE P
    ELSE IF Cardinality(P) >= max_pending_blocks
         THEN P
         ELSE P \cup {PendingEntry(blk, verified, es)}

GetVerifiedPendingBlock(P, epoch, round) ==
    {x \in P : x.epoch = epoch /\ x.round = round /\ x.verified}

UpdateCommitDecision(P, cd) ==
    {IF SameKey(x, cd) THEN [x EXCEPT !.cd = TRUE] ELSE x : x \in P}

RemoveBlocksForCommit(P, li) == {x \in P : ~KeyLeq(x, li)}

\* verifies the unverified entries against the given epoch state: an entry of
\* that epoch is promoted when its proof verifies and discarded when it does
\* not; the entries of other epochs are left as they are
VerifyPendingBlocks(P, es) ==
    {IF ~x.verified /\ x.epoch = es THEN [x EXCEPT !.verified = TRUE, !.ves = es] ELSE x :
        x \in {y \in P : y.verified \/ y.epoch # es \/ VerifyOrderedProof(es, y)}}

RECURSIVE SortByKey(_)
SortByKey(S) ==
    IF S = {} THEN <<>>
    ELSE LET m == CHOOSE x \in S : \A y \in S : KeyLeq(x, y)
         IN <<m>> \o SortByKey(S \ {m})

GetAllVerifiedPendingBlocks(P) == SortByKey({x \in P : x.verified})

\* ------------------------------------------------- observer core helpers
GetLastBlock ==
    IF pending_ordered_blocks # {}
    THEN LedgerInfoOf(GetLastPendingBlock(pending_ordered_blocks))
    ELSE root

ParentMatches_Any(blk) == TRUE

\* observer.rs:663
ParentMatches(blk) == GetLastBlock.id = blk.parent

FinalizeOnArrival_NoSyncCheck(blk, verified) == verified

FinalizeOnArrival_PayloadGate(blk, verified) ==
    verified /\ sync_handle = 0 /\ blk.id \in block_payload_store

\* observer.rs:669
FinalizeOnArrival(blk, verified) == verified /\ sync_handle = 0

\* observer.rs:484
ShouldStateSync(cd, last) == cd.epoch > last.epoch \/ cd.round > last.round

InstalledSyncHandle_Dropped(job) == 0

\* observer.rs:506
InstalledSyncHandle(job) == job

CheckRootEpochAndRound_EpochOnly(epoch, round) == root.epoch = epoch

\* observer.rs:1056-1068
CheckRootEpochAndRound(epoch, round) == root.epoch = epoch /\ root.round = round

\* one call of execution_client.finalize_order, with what held at the call
FinalizeCall(x, path, ves, es, handle) ==
    [epoch |-> x.epoch, round |-> x.round, id |-> x.id, parent |-> x.parent,
     ves |-> ves, es |-> es, sync |-> handle # 0,
     payload |-> x.id \in block_payload_store, root_id |-> root.id, path |-> path]

AbortJob_Never(js, h) == js

\* the DropGuard of the handle is dropped: the job it guards is aborted
AbortJob(js, h) ==
    IF h # 0 /\ js[h].st = "running" THEN [js EXCEPT ![h].st = "aborted"] ELSE js

\* a step whose input is not to be dropped
NoWarning == warned' = NoDrop

\* a step other than a progress tick
NoProgressTick == tick' = NoTick

\* a step that hands no network message to the request path
NoRequest == inbound' = NoInbound

PublisherForwardingOnly_BothEnabled(c) == c.publisher_enabled /\ c.observer_enabled

\* observer.rs:955-956
PublisherForwardingOnly(c) == c.publisher_enabled /\ ~c.observer_enabled

\* ------------------------------------------------- wait_for_epoch_start, at start()
Start ==
    /\ pc = "start"
    /\ ~PublisherForwardingOnly(config)
    /\ reconfig # 0
    /\ epoch_state' = reconfig
    /\ reconfig' = 0
    /\ pc' = "run"
    /\ UNCHANGED <<prev_epoch_state, root, block_payload_store, pending_ordered_blocks,
                   sync_handle, jobs, notifications, db_epoch, finalized, forwarded,
                   committed, cb, messages>>
    /\ NoWarning
    /\ NoProgressTick
    /\ NoRequest
    /\ UNCHANGED sub_vars

\* ------------------------------------------------- process_block_payload
ProcessBlockPayload_AutoFinalize(id) ==
    LET completed == {x \in pending_ordered_blocks : x.verified /\ x.id = id} IN
    /\ pc = "run"
    /\ messages < MaxMessages
    /\ messages' = messages + 1
    /\ Cardinality(InsertBlockPayload(block_payload_store, id)) <= MaxPayloads
    /\ block_payload_store' = InsertBlockPayload(block_payload_store, id)
    /\ Len(finalized) < MaxFinalized
    /\ finalized' =
         IF completed # {} /\ sync_handle = 0
         THEN Append(finalized,
                     FinalizeCall(CHOOSE x \in completed : TRUE, "arrival", epoch_state,
                                  epoch_state, sync_handle))
         ELSE finalized
    /\ UNCHANGED <<pc, epoch_state, prev_epoch_state, root, pending_ordered_blocks,
                   sync_handle, jobs, notifications, reconfig, db_epoch,
                   forwarded, committed, cb>>
    /\ NoWarning
    /\ NoProgressTick
    /\ NoRequest
    /\ UNCHANGED sub_vars

ProcessBlockPayload(id) ==
    /\ pc = "run"
    /\ messages < MaxMessages
    /\ messages' = messages + 1
    /\ Cardinality(InsertBlockPayload(block_payload_store, id)) <= MaxPayloads
    /\ block_payload_store' = InsertBlockPayload(block_payload_store, id)
    /\ UNCHANGED <<pc, epoch_state, prev_epoch_state, root, pending_ordered_blocks,
                   sync_handle, jobs, notifications, reconfig, db_epoch, finalized,
                   forwarded, committed, cb>>
    /\ NoWarning
    /\ NoProgressTick
    /\ NoRequest
    /\ UNCHANGED sub_vars

\* ------------------------------------------------- process_ordered_block
ProcessOrderedBlock(blk) ==
    LET verified == blk.epoch = epoch_state
        dropped == \/ ~blk.wf
                   \/ (verified /\ ~VerifyOrderedProof(epoch_state, blk))
                   \/ ~ParentMatches(blk)
        finalize == ~dropped /\ FinalizeOnArrival(blk, verified)
        \* the block is not a child of the last known block
        parent_missing == GetLastBlock.id # blk.parent
        \* the block is malformed, or of the current epoch with a forged proof
        invalid_input == ~blk.wf \/ (blk.epoch = epoch_state /\ ~GenuineBlock(blk))
    IN
    /\ pc = "run"
    /\ messages < MaxMessages
    /\ messages' = messages + 1
    /\ finalize => Len(finalized) < MaxFinalized
    /\ pending_ordered_blocks' =
         IF dropped THEN pending_ordered_blocks
         ELSE InsertOrderedBlock(pending_ordered_blocks, blk, verified, epoch_state)
    /\ finalized' =
         IF finalize
         THEN Append(finalized,
                     FinalizeCall(blk, "arrival", epoch_state, epoch_state, sync_handle))
         ELSE finalized
    /\ warned' = [NoDrop EXCEPT !.why = IF parent_missing THEN "parent_missing" ELSE "none",
                                !.invalid = invalid_input]
    /\ NoProgressTick
    /\ NoRequest
    /\ UNCHANGED sub_vars
    /\ UNCHANGED <<pc, epoch_state, prev_epoch_state, root, block_payload_store, sync_handle,
                   jobs, notifications, reconfig, db_epoch, forwarded, committed, cb>>


\* ------------------------------------------------- process_commit_decision
ProcessedForPendingBlock_NoPayloadCheck(cd) ==
    GetVerifiedPendingBlock(pending_ordered_blocks, cd.epoch, cd.round) # {}

\* process_commit_decision_for_pending_block: true iff the decision was processed
ProcessedForPendingBlock(cd) ==
    \E x \in GetVerifiedPendingBlock(pending_ordered_blocks, cd.epoch, cd.round) :
        AllPayloadsExist(block_payload_store, x)

\* sync_to_commit_decision: the job spawned for the decision, while the jobs js
\* exist and handle h is installed; overlap tells whether the job that h guards
\* was still running when this one was spawned
NewSyncJob(cd, js, h) ==
    [epoch |-> cd.epoch, round |-> cd.round, id |-> cd.id,
     st |-> "running", overlap |-> h # 0 /\ js[h].st = "running"]

ReplaceSyncJob_AbortFirst(js, h, cd) ==
    LET aborted == AbortJob(js, h) IN Append(aborted, NewSyncJob(cd, aborted, h))

\* observer.rs:498-506: sync_to_commit_decision spawns the job and returns its
\* abort handle; the assignment to self.sync_handle then drops the previous
\* DropGuard
ReplaceSyncJob(js, h, cd) ==
    LET spawned == Append(js, NewSyncJob(cd, js, h)) IN AbortJob(spawned, h)

InvalidCommitDecision_Ignored(cd) == FALSE

\* observer.rs:458-470: the decision is of the current epoch and its proof does
\* not verify
InvalidCommitDecision(cd) == cd.epoch = epoch_state /\ ~VerifyCommitProof(epoch_state, cd)

ProcessCommitDecision(cd) ==
    LET current == cd.epoch = epoch_state
        invalid == InvalidCommitDecision(cd)
        attached == current /\ ~invalid /\ ProcessedForPendingBlock(cd)
        sync == ~invalid /\ ~attached /\ ShouldStateSync(cd, GetLastBlock)
        job == Len(jobs) + 1
    IN
    /\ pc = "run"
    /\ messages < MaxMessages
    /\ messages' = messages + 1
    /\ sync => Len(jobs) < MaxJobs
    /\ pending_ordered_blocks' =
         IF attached THEN UpdateCommitDecision(pending_ordered_blocks, cd)
         ELSE IF sync THEN RemoveBlocksForCommit(pending_ordered_blocks, cd)
         ELSE pending_ordered_blocks
    /\ forwarded' =
         IF attached /\ sync_handle = 0 THEN forwarded \cup {cd} ELSE forwarded
    /\ root' = IF sync THEN cd ELSE root
    /\ jobs' = IF sync THEN ReplaceSyncJob(jobs, sync_handle, cd) ELSE jobs
    /\ sync_handle' = IF sync THEN InstalledSyncHandle(job) ELSE sync_handle
    /\ UNCHANGED <<pc, epoch_state, prev_epoch_state, block_payload_store, notifications,
                   reconfig, db_epoch, finalized, committed, cb>>
    /\ warned' = [NoDrop EXCEPT !.invalid = (cd.epoch = epoch_state /\ ~Genuine(cd))]
    /\ NoProgressTick
    /\ NoRequest
    /\ UNCHANGED sub_vars

\* ------------------------------------------------- the sync job
\* observer.rs:1157-1178: what the job does when sync_to returns
SyncJobNotifies(ok) == TRUE

\* sync_to returns: ok is its result, d the epoch storage has reached (the
\* target's when it succeeded, which takes a genuine target)
SyncJobCompletes(j, ok, d) ==
    LET job == jobs[j]
        reached == IF job.epoch > db_epoch THEN job.epoch ELSE db_epoch
    IN
    /\ job.st = "running"
    /\ d >= db_epoch /\ d <= reached
    /\ ok => (d = reached /\ Genuine(job))
    /\ jobs' = [jobs EXCEPT ![j].st = "done"]
    /\ notifications' =
         IF SyncJobNotifies(ok)
         THEN Append(notifications,
                     [epoch |-> job.epoch, round |-> job.round, job |-> j, ok |-> ok])
         ELSE notifications
    /\ db_epoch' = d
    /\ reconfig' = IF d > db_epoch THEN d ELSE reconfig
    /\ UNCHANGED <<pc, epoch_state, prev_epoch_state, root, block_payload_store,
                   pending_ordered_blocks, sync_handle, finalized, forwarded,
                   committed, cb, messages>>
    /\ NoWarning
    /\ NoProgressTick
    /\ NoRequest
    /\ UNCHANGED sub_vars

\* ------------------------------------------------- process_sync_notification
\* observer.rs:754-769: the sync handle is reset, then the verified pending
\* blocks P are finalized in key order and their commit decisions forwarded
DrainedBlocks_All(P) == SortByKey(P)

\* observer.rs:758-761: the blocks the drain loop goes through
DrainedBlocks(P) == GetAllVerifiedPendingBlocks(P)

DropHandleAndDrain(P, js, es) ==
    LET blocks == DrainedBlocks(P) IN
    /\ Len(finalized) + Len(blocks) <= MaxFinalized
    /\ sync_handle' = 0
    /\ jobs' = AbortJob(js, sync_handle)
    /\ finalized' = finalized \o
         [i \in 1..Len(blocks) |-> FinalizeCall(blocks[i], "drain", blocks[i].ves, es, 0)]
    /\ forwarded' = forwarded \cup {LedgerInfoOf(x) : x \in {y \in P : y.verified /\ y.cd}}
    /\ pending_ordered_blocks' = P

MarkHonored(js, j) == [js EXCEPT ![j].st = "honored"]

ProcessSyncNotification ==
    /\ pc = "run"
    /\ notifications # <<>>
    /\ LET n == Head(notifications) IN
       /\ notifications' = Tail(notifications)
       /\ IF ~CheckRootEpochAndRound(n.epoch, n.round)
          THEN UNCHANGED <<pc, prev_epoch_state, pending_ordered_blocks, sync_handle,
                           jobs, finalized, forwarded>>
          ELSE IF n.epoch > epoch_state
          THEN \* end_epoch, then wait_for_epoch_start awaits the reconfiguration
               /\ pc' = "wait_epoch"
               /\ prev_epoch_state' = epoch_state
               /\ jobs' = MarkHonored(jobs, n.job)
               /\ UNCHANGED <<pending_ordered_blocks, sync_handle, finalized, forwarded>>
          ELSE /\ DropHandleAndDrain(pending_ordered_blocks, MarkHonored(jobs, n.job),
                                     epoch_state)
               /\ UNCHANGED <<pc, prev_epoch_state>>
    /\ UNCHANGED <<epoch_state, root, block_payload_store, reconfig, db_epoch,
                   committed, cb, messages>>
    /\ NoWarning
    /\ NoProgressTick
    /\ NoRequest
    /\ UNCHANGED sub_vars

VerifyPendingEpochState_New(current_epoch_state, new_epoch_state) == new_epoch_state

\* observer.rs:749-750: the epoch state passed to verify_pending_blocks is
\* current_epoch_state, read at 743 before wait_for_epoch_start
VerifyPendingEpochState(current_epoch_state, new_epoch_state) == current_epoch_state

\* wait_for_epoch_start returns inside process_sync_notification
EpochStarted ==
    /\ pc = "wait_epoch"
    /\ reconfig # 0
    /\ epoch_state' = reconfig
    /\ reconfig' = 0
    /\ DropHandleAndDrain(
         VerifyPendingBlocks(pending_ordered_blocks,
                             VerifyPendingEpochState(prev_epoch_state, reconfig)),
         jobs, reconfig)
    /\ pc' = "run"
    /\ prev_epoch_state' = 0
    /\ UNCHANGED <<root, block_payload_store, notifications, db_epoch, committed, cb, messages>>
    /\ NoWarning
    /\ NoProgressTick
    /\ NoRequest
    /\ UNCHANGED sub_vars

\* ------------------------------------------------- the commit callback
\* the pipeline calls the callback of a finalized block, in finalize order
CommitCallbackCalled(k) ==
    /\ cb.pc = 0
    /\ k > committed /\ k <= Len(finalized)
    /\ committed' = k
    /\ cb' = [pc |-> 1, block |-> finalized[k].id, li |-> LedgerInfoOf(finalized[k])]
    /\ UNCHANGED <<pc, epoch_state, prev_epoch_state, root, block_payload_store,
                   pending_ordered_blocks, sync_handle, jobs, notifications, reconfig,
                   db_epoch, finalized, forwarded, messages>>
    /\ NoWarning
    /\ NoProgressTick
    /\ NoRequest
    /\ UNCHANGED sub_vars

CommitCallbackRemovePayloads ==
    /\ cb.pc = 1
    /\ block_payload_store' = RemoveBlocks(block_payload_store, cb.block)
    /\ cb' = [cb EXCEPT !.pc = 2]
    /\ UNCHANGED <<pc, epoch_state, prev_epoch_state, root, pending_ordered_blocks,
                   sync_handle, jobs, notifications, reconfig, db_epoch, finalized,
                   forwarded, committed, messages>>
    /\ NoWarning
    /\ NoProgressTick
    /\ NoRequest
    /\ UNCHANGED sub_vars

CommitCallbackRemovePending ==
    /\ cb.pc = 2
    /\ pending_ordered_blocks' = RemoveBlocksForCommit(pending_ordered_blocks, cb.li)
    /\ cb' = [cb EXCEPT !.pc = 3]
    /\ UNCHANGED <<pc, epoch_state, prev_epoch_state, root, block_payload_store,
                   sync_handle, jobs, notifications, reconfig, db_epoch, finalized,
                   forwarded, committed, messages>>
    /\ NoWarning
    /\ NoProgressTick
    /\ NoRequest
    /\ UNCHANGED sub_vars

CallbackRoot_Lexicographic(li) == IF KeyLt(root, li) THEN li ELSE root

\* observer.rs:237-254, under the root lock
CallbackRoot(li) ==
    IF li.epoch # root.epoch THEN root
    ELSE IF li.round > root.round THEN li
    ELSE root

CommitCallbackUpdateRoot ==
    /\ cb.pc = 3
    /\ root' = CallbackRoot(cb.li)
    /\ cb' = IdleCallback
    /\ UNCHANGED <<pc, epoch_state, prev_epoch_state, block_payload_store,
                   pending_ordered_blocks, sync_handle, jobs, notifications, reconfig,
                   db_epoch, finalized, forwarded, committed, messages>>
    /\ NoWarning
    /\ NoProgressTick
    /\ NoRequest
    /\ UNCHANGED sub_vars

\* ------------------------------------------------- subscriptions
\* subscription::sort_peers_by_distance_and_latency: a total order on the
\* peers; the peer id stands for the rank (distance, latency, id)
RECURSIVE SortedPeers(_)
SortedPeers(S) ==
    IF S = {} THEN <<>>
    ELSE LET m == CHOOSE x \in S : \A y \in S : x <= y
         IN <<m>> \o SortedPeers(S \ {m})

SortPeersForSubscription_KeepPrevious(connected, previous, subscribers) ==
    SortedPeers(connected \ subscribers)

\* observer.rs:777-802: the previous subscription peer and the peers subscribed
\* to us (consensus_publisher.get_active_subscribers) are removed
SortPeersForSubscription(connected, previous, subscribers) ==
    SortedPeers((connected \ {previous}) \ subscribers)

\* index of the first peer of the list that answers SubscribeAck; 0 if none does
FirstAck(sorted_peers, acks) ==
    IF \E i \in 1..Len(sorted_peers) : sorted_peers[i] \in acks
    THEN CHOOSE i \in 1..Len(sorted_peers) :
             /\ sorted_peers[i] \in acks
             /\ \A k \in 1..(i - 1) : sorted_peers[k] \notin acks
    ELSE 0

SubscribeRequests_All(sorted_peers, acks) == sorted_peers

\* observer.rs:284-344: the peers a Subscribe RPC is sent to, in order; the loop
\* returns at the first SubscribeAck (323)
SubscribeRequests(sorted_peers, acks) ==
    IF FirstAck(sorted_peers, acks) = 0 THEN sorted_peers
    ELSE SubSeq(sorted_peers, 1, FirstAck(sorted_peers, acks))

\* observer.rs:305-324: active_observer_subscription after the loop, which
\* assigns it at each SubscribeAck
InstalledSubscription(sent, acks) ==
    IF \E i \in 1..Len(sent) : sent[i] \in acks
    THEN sent[CHOOSE i \in 1..Len(sent) :
                  /\ sent[i] \in acks
                  /\ \A k \in (i + 1)..Len(sent) : sent[k] \notin acks]
    ELSE 0

\* the outcome of the three checks of ConsensusObserverSubscription, taken in
\* the order check_active_subscription calls them: check_subscription_timeout,
\* check_syncing_progress, check_subscription_peer_optimality
SubscriptionChecks ==
    {"Ok", "SubscriptionTimeout", "SubscriptionProgressStopped", "SubscriptionSuboptimal"}

\* observer.rs:184-219: the error the health check of the subscription to peer
\* returns ("Ok" when it returns none)
CheckActiveSubscription(peer, connected, checks) ==
    IF peer \notin connected THEN "SubscriptionDisconnected" ELSE checks

\* check_progress: one progress tick. checks is the outcome of the checks of
\* the subscription, connected the peers of get_connected_peers_and_metadata,
\* subscribers the publisher's active subscribers and acks the peers that
\* answer a Subscribe with SubscribeAck
CheckProgress(checks, connected, subscribers, acks) ==
    LET previous == active_observer_subscription
        error == IF previous = 0 THEN "Ok"
                 ELSE CheckActiveSubscription(previous, connected, checks)
        failed == error # "Ok"
        sorted_peers == SortPeersForSubscription(connected, previous, subscribers)
        sent == IF previous = 0 \/ failed THEN SubscribeRequests(sorted_peers, acks) ELSE <<>>
    IN
    /\ pc = "run"
    /\ ticks < MaxTicks
    /\ ticks' = ticks + 1
    /\ warned' = IF failed
                  THEN [NoDrop EXCEPT !.why = "subscription_failed", !.peer = previous,
                                       !.unsubscribe = previous]
                  ELSE NoDrop
    /\ active_observer_subscription' =
         IF previous = 0 \/ failed THEN InstalledSubscription(sent, acks) ELSE previous
    /\ tick' = [previous |-> previous, failed |-> failed, error |-> error,
                subscribers |-> subscribers,
                sent |-> sent, acked |-> {sent[i] : i \in 1..Len(sent)} \cap acks]
    /\ NoRequest
    /\ UNCHANGED config
    /\ UNCHANGED <<pc, epoch_state, prev_epoch_state, root, block_payload_store,
                   pending_ordered_blocks, sync_handle, jobs, notifications, reconfig,
                   db_epoch, finalized, forwarded, committed, cb, messages>>

\* ConsensusObserverSubscription::verify_message_sender
VerifyMessageSender(subscription, peer) == subscription = peer

SenderRejected_SubscribedOnly(peer) ==
    active_observer_subscription # 0 /\ ~VerifyMessageSender(active_observer_subscription, peer)

\* observer.rs:560-584: the two branches that unsubscribe and return
SenderRejected(peer) ==
    \/ active_observer_subscription = 0
    \/ ~VerifyMessageSender(active_observer_subscription, peer)

\* process_direct_send_message: message m of the given kind from peer
ProcessDirectSendMessage(peer, kind, m) ==
    IF SenderRejected(peer)
    THEN /\ pc = "run"
         /\ messages < MaxMessages
         /\ messages' = messages + 1
         /\ warned' = [NoDrop EXCEPT !.why = IF peer # active_observer_subscription
                                              THEN "unexpected_sender" ELSE "none",
                                      !.peer = peer, !.unsubscribe = peer]
         /\ NoProgressTick
         /\ NoRequest
         /\ UNCHANGED <<pc, epoch_state, prev_epoch_state, root, block_payload_store,
                        pending_ordered_blocks, sync_handle, jobs, notifications, reconfig,
                        db_epoch, finalized, forwarded, committed, cb>>
         /\ UNCHANGED sub_vars
    ELSE \/ kind = "payload" /\ ProcessBlockPayload(m)
         \/ kind = "block" /\ ProcessOrderedBlock(m)
         \/ kind = "decision" /\ ProcessCommitDecision(m)

\* ------------------------------------------------- publisher forwarding
\* what start() and start_publisher_forwarding leave alone
observer_vars == <<epoch_state, prev_epoch_state, root, block_payload_store,
                   pending_ordered_blocks, sync_handle, jobs, notifications, reconfig,
                   db_epoch, finalized, forwarded, committed, cb, messages,
                   active_observer_subscription, ticks, config>>

\* observer.rs:954-962: start() enters start_publisher_forwarding, never to return
StartPublisherForwarding ==
    /\ pc = "start"
    /\ PublisherForwardingOnly(config)
    /\ pc' = "forwarding"
    /\ NoWarning
    /\ NoProgressTick
    /\ NoRequest
    /\ UNCHANGED observer_vars

Requests == {"Subscribe", "Unsubscribe"}

\* process_request_message, called from the select loop of start() (994) and
\* from the forwarding loop (1040): the request goes to the publisher when there
\* is a response sender and a publisher
ProcessRequestMessage(peer, request, response_sender) ==
    /\ pc \in {"run", "forwarding"}
    /\ inbound' = [peer |-> peer, kind |-> request,
                   forwarded |-> response_sender /\ config.consensus_publisher]
    /\ NoWarning
    /\ NoProgressTick
    /\ UNCHANGED pc
    /\ UNCHANGED observer_vars

\* observer.rs:1043-1046: any other message that reaches the forwarding loop is
\* logged and dropped
ForwardingUnexpectedMessage(peer) ==
    /\ pc = "forwarding"
    /\ inbound' = [peer |-> peer, kind |-> "DirectSend", forwarded |-> FALSE]
    /\ NoWarning
    /\ NoProgressTick
    /\ UNCHANGED pc
    /\ UNCHANGED observer_vars

\* the messages of the subscription runs: what a publisher that follows the
\* chain sends after block (1, 1)
SubPayloads == {GenId(1, 2)}
SubBlocks == {b \in OrderedBlocks : GenuineBlock(b) /\ b.wf /\ b.epoch = 1}
SubDecisions == {cd \in CommitDecisions : Genuine(cd) /\ cd.epoch = 1 /\ cd.round <= 2}

\* ------------------------------------------------- specification
Next ==
    \/ Start
    \/ \E id \in GenuineIds : ProcessBlockPayload(id)
    \/ \E blk \in OrderedBlocks : ProcessOrderedBlock(blk)
    \/ \E cd \in CommitDecisions : ProcessCommitDecision(cd)
    \/ \E j \in 1..Len(jobs), ok \in BOOLEAN, d \in Epochs : SyncJobCompletes(j, ok, d)
    \/ ProcessSyncNotification
    \/ EpochStarted
    \/ \E k \in 1..MaxFinalized : CommitCallbackCalled(k)
    \/ CommitCallbackRemovePayloads
    \/ CommitCallbackRemovePending
    \/ CommitCallbackUpdateRoot

Spec == Init /\ [][Next]_vars

\* the select loop of start() with its three sources: network messages from
\* any peer, progress ticks, and (left out here) sync notifications
SubNext ==
    \/ Start
    \/ \E checks \in SubscriptionChecks, connected \in SUBSET Peers,
          subscribers \in SUBSET Peers, acks \in SUBSET Peers :
            CheckProgress(checks, connected, subscribers, acks)
    \/ \E peer \in Peers, id \in SubPayloads : ProcessDirectSendMessage(peer, "payload", id)
    \/ \E peer \in Peers, blk \in SubBlocks : ProcessDirectSendMessage(peer, "block", blk)
    \/ \E peer \in Peers, cd \in SubDecisions : ProcessDirectSendMessage(peer, "decision", cd)

SubSpec == Init /\ [][SubNext]_vars

\* start() under every configuration: the forwarding loop of a publisher-only
\* node, and otherwise the select loop with network messages (direct sends and
\* requests) and progress ticks
ConfigNext ==
    \/ Start
    \/ StartPublisherForwarding
    \/ \E peer \in Peers, request \in Requests, response_sender \in BOOLEAN :
          ProcessRequestMessage(peer, request, response_sender)
    \/ \E peer \in Peers : ForwardingUnexpectedMessage(peer)
    \/ \E checks \in SubscriptionChecks, acks \in SUBSET Peers :
          CheckProgress(checks, Peers, {}, acks)
    \/ \E peer \in Peers, id \in SubPayloads : ProcessDirectSendMessage(peer, "payload", id)
    \/ \E peer \in Peers, blk \in SubBlocks : ProcessDirectSendMessage(peer, "block", blk)
    \/ \E peer \in Peers, cd \in SubDecisions : ProcessDirectSendMessage(peer, "decision", cd)

ConfigSpec == ConfigInit /\ [][ConfigNext]_vars

\* the scheduling the runtime gives: a spawned sync job runs until sync_to
\* returns, the select loop of start() takes a sync notification that is in the
\* channel, and wait_for_epoch_start returns once a reconfiguration
\* notification is there
FairSpec ==
    /\ Init
    /\ [][Next]_vars
    /\ WF_vars(\E j \in 1..Len(jobs), ok \in BOOLEAN, d \in Epochs : SyncJobCompletes(j, ok, d))
    /\ WF_vars(ProcessSyncNotification)
    /\ WF_vars(EpochStarted)


\* ------------------------------------------------- properties
Calls == 1..Len(finalized)

\* the finalize_order calls this step made
NewCalls == (Len(finalized) + 1)..Len(finalized')

\* the step in which process_sync_notification resets the sync handle and drains
DrainStep == sync_handle # 0 /\ sync_handle' = 0

\* the step in which a sync notification passes the root check
HonorStep ==
    /\ pc = "run"
    /\ notifications # <<>>
    /\ notifications' = Tail(notifications)
    /\ CheckRootEpochAndRound(Head(notifications).epoch, Head(notifications).round)

\* C1: finalize_order is never called while sync_handle is set, neither for a
\* block finalized on arrival nor for one finalized by the drain.
C1_NoFinalizeInSyncMode == \A i \in Calls : ~finalized[i].sync

C1_Witness ==
    /\ \E i \in Calls : finalized[i].path = "arrival"
    /\ \E i \in Calls : finalized[i].path = "drain"
    /\ sync_handle = 0

\* C2: every block passed to finalize_order is verified, and its ordered proof
\* was checked under the epoch state that is active at the finalize call.
C2_VerifiedUnderActiveEpochState ==
    \A i \in Calls : finalized[i].ves # 0 /\ finalized[i].ves = finalized[i].es

\* C3: the (epoch, round) of root never decreases.
C3_RootMonotonic == [][KeyLeq(root, root')]_vars

\* C4: the parent of every block passed to finalize_order is the block finalized
\* before it, or root as it is at that finalize call.
C4_ParentChain ==
    \A i \in Calls :
        \/ finalized[i].parent = finalized[i].root_id
        \/ i > 1 /\ finalized[i].parent = finalized[i - 1].id

\* C5: every block passed to finalize_order has its payload in the payload
\* store at the call.
C5_PayloadBeforeFinalize == \A i \in Calls : finalized[i].payload

\* C5, amended: finalize_order is called whether or not the payload is stored:
\* whenever the observer is not in sync mode, every verified pending block has
\* been passed to finalize_order.
C5_VerifiedPendingIsFinalized ==
    sync_handle = 0 =>
        \A x \in pending_ordered_blocks :
            x.verified => \E i \in Calls : SameKey(finalized[i], x) /\ finalized[i].id = x.id

C5_Witness ==
    \E i \in Calls :
        /\ finalized[i].path = "arrival"
        /\ ~finalized[i].payload
        /\ \E x \in pending_ordered_blocks : x.id = finalized[i].id /\ x.verified

\* C6: the blocks passed to finalize_order are strictly increasing in
\* (epoch, round), so that no block is passed twice.
C6_FinalizedIncreasing ==
    \A i, j \in Calls : i < j => KeyLt(finalized[i], finalized[j])

\* C7: the honored sync notification finalizes every entry of the pending
\* buffer exactly once, in increasing (epoch, round) order.
C7_DrainComplete ==
    [][DrainStep =>
        /\ \A x \in pending_ordered_blocks :
             Cardinality({i \in NewCalls : SameKey(finalized'[i], x)}) = 1
        /\ \A i, j \in NewCalls : i < j => KeyLt(finalized'[i], finalized'[j])]_vars

\* C7, amended: the honored sync notification finalizes every verified entry
\* of the pending buffer (as it is after verify_pending_blocks) exactly once, in
\* increasing (epoch, round) order, and no other block.
C7_DrainVerified ==
    [][DrainStep =>
        /\ \A x \in pending_ordered_blocks' :
             Cardinality({i \in NewCalls : SameKey(finalized'[i], x) /\ finalized'[i].id = x.id})
               = IF x.verified THEN 1 ELSE 0
        /\ \A i \in NewCalls :
             \E x \in pending_ordered_blocks' : SameKey(finalized'[i], x) /\ x.verified
        /\ \A i, j \in NewCalls : i < j => KeyLt(finalized'[i], finalized'[j])]_vars

C7_Witness ==
    /\ \E i \in Calls : finalized[i].path = "drain"
    /\ \E x \in pending_ordered_blocks : ~x.verified
    /\ \E j \in 1..Len(jobs) : jobs[j].st = "honored"

\* C8: no two sync notifications of the same target are both honored, and the
\* notification of a superseded sync job is rejected by the root check: a
\* notification that passes the root check is the one of the job the sync
\* handle guards, and no job of the same target was honored before.
C8_StaleNotificationRejected ==
    [][HonorStep =>
        /\ Head(notifications).job = sync_handle
        /\ \A j \in 1..Len(jobs) :
             jobs[j].st = "honored" => ~SameKey(jobs[j], Head(notifications))]_vars

\* C9: a sync job whose sync_to failed posts no notification.
C9_FailedSyncPostsNothing ==
    \A i \in 1..Len(notifications) : notifications[i].ok

\* C10: after the first epoch start, root.epoch <= epoch_state.epoch.
C10_RootEpochAtMostEpochState == epoch_state # 0 => root.epoch <= epoch_state

\* C10, amended: after the first epoch start, root.epoch exceeds
\* epoch_state.epoch only from a step of process_commit_decision that enters
\* sync mode: the step sets root to the commit decision and installs the handle
\* of the sync job toward it.
C10_RootEpochExceedsOnlyBySync ==
    [][(epoch_state # 0 /\ root.epoch <= epoch_state /\ root'.epoch > epoch_state') =>
        /\ sync_handle' # 0
        /\ sync_handle' # sync_handle
        /\ root' = LedgerInfoOf(jobs'[sync_handle'])
        /\ jobs'[sync_handle'].st = "running"]_vars

C10_Witness == epoch_state # 0 /\ root.epoch > epoch_state /\ sync_handle # 0


\* C11: every entry of the pending buffer has (epoch, round) strictly greater
\* than root.(epoch, round).
C11_PendingAboveRoot == \A x \in pending_ordered_blocks : KeyLt(root, x)

\* C12: at most one sync job is not aborted at any instant: a running job is
\* the one the sync handle guards, so that replacing the handle aborts the
\* previous job and no job runs once an honored completion has reset the handle.
C12_AtMostOneSyncJob ==
    \A j \in 1..Len(jobs) : jobs[j].st = "running" => j = sync_handle

C12_Witness ==
    /\ Len(jobs) = 2
    /\ jobs[1].st = "aborted"
    /\ jobs[2].st = "running"
    /\ sync_handle = 2

\* C14: a commit decision with no matching pending block makes the observer
\* enter sync mode only if its (epoch, round) is lexicographically greater than
\* that of the last known block; otherwise nothing changes.
C14_SyncOnlyWhenAhead ==
    [][\A cd \in CommitDecisions :
          (/\ ProcessCommitDecision(cd)
           /\ GetVerifiedPendingBlock(pending_ordered_blocks, cd.epoch, cd.round) = {}
           /\ ~KeyLt(GetLastBlock, cd))
          => UNCHANGED <<root, pending_ordered_blocks, sync_handle, jobs>>]_vars

\* the step that processes a sync notification which does not equal root
StaleNotificationStep ==
    /\ pc = "run"
    /\ notifications # <<>>
    /\ notifications' = Tail(notifications)
    /\ ~(root.epoch = Head(notifications).epoch /\ root.round = Head(notifications).round)

\* C15: a sync notification that does not equal root.(epoch, round) is ignored:
\* sync_handle, epoch_state, the pending buffer, the payload store and root are
\* unchanged, and neither end_epoch nor finalize_order is called.
C15_StaleNotificationIgnored ==
    [][StaleNotificationStep =>
          UNCHANGED <<sync_handle, epoch_state, pending_ordered_blocks, block_payload_store,
                      root, pc, finalized, forwarded, jobs>>]_vars

C15_Witness ==
    \E j \in 1..Len(jobs) :
        /\ jobs[j].st = "done"
        /\ \A i \in 1..Len(notifications) : notifications[i].job # j

\* C17: when a sync completion starts the epoch of an unverified pending entry,
\* processing the completion promotes the entry to verified and passes it to
\* finalize_order.
C17_RolloverPromotes ==
    [][(pc = "wait_epoch" /\ pc' = "run") =>
          \A x \in pending_ordered_blocks :
              (~x.verified /\ x.epoch = epoch_state' /\ GenuineBlock(x)) =>
                  /\ \E y \in pending_ordered_blocks' : SameKey(y, x) /\ y.verified
                  /\ \E i \in NewCalls : SameKey(finalized'[i], x)]_vars

\* C18: an ordered block whose parent is not the last known block is dropped:
\* the pending buffer, the payload store, root and sync_handle are unchanged and
\* finalize_order is not called.
C18_ParentMismatchDropped ==
    [][warned'.why = "parent_missing" =>
          UNCHANGED <<pending_ordered_blocks, block_payload_store, root, sync_handle,
                      finalized, forwarded>>]_vars

C18_Witness == warned.why = "parent_missing"


\* C16: leap-forward. With no pending blocks, a commit decision of a future
\* epoch (e', r') puts the observer in sync mode with root = (e', r'); once the
\* completion notification (e', r') is being processed, the observer ends with
\* epoch_state.epoch = e', root = (e', r') and sync_handle unset.
LeapForwardHonored ==
    /\ pc = "wait_epoch"
    /\ pending_ordered_blocks = {}
    /\ Len(jobs) = 1
    /\ jobs[1].st = "honored"
    /\ root = LedgerInfoOf(jobs[1])

LeapForwardDone ==
    /\ pc = "run"
    /\ Len(jobs) >= 1
    /\ epoch_state = jobs[1].epoch
    /\ root = LedgerInfoOf(jobs[1])
    /\ sync_handle = 0

C16_LeapForward == LeapForwardHonored ~> LeapForwardDone


\* C13: active_observer_subscription is absent or holds exactly one peer, and a
\* progress tick installs at most one acknowledged Subscribe: the peer that
\* answered SubscribeAck is the last one a Subscribe RPC was sent to in the tick,
\* and it is the active subscription.
C13_AtMostOneSubscription ==
    /\ active_observer_subscription \in 0..MaxPeers
    /\ \A i \in 1..Len(tick.sent) : tick.sent[i] \in tick.acked => i = Len(tick.sent)
    /\ Cardinality(tick.acked) <= 1
    /\ tick.acked # {} => tick.acked = {active_observer_subscription}

C13_Witness ==
    /\ Len(tick.sent) = 2
    /\ tick.acked = {tick.sent[2]}
    /\ active_observer_subscription = tick.sent[2]

\* C19: in a progress tick where the health check of the subscription to peer P
\* fails, an Unsubscribe is issued to P, and the subscription the tick leaves
\* (if any) is to a peer that is neither P nor a peer the publisher reported as
\* subscribed to us; no Subscribe RPC is even sent to such a peer.
C19_FailedSubscriptionReplaced ==
    tick.failed =>
        /\ warned.unsubscribe = tick.previous
        /\ active_observer_subscription # tick.previous
        /\ active_observer_subscription \notin tick.subscribers
        /\ \A i \in 1..Len(tick.sent) :
             tick.sent[i] # tick.previous /\ tick.sent[i] \notin tick.subscribers

C19_Witness ==
    /\ tick.failed
    /\ tick.subscribers # {}
    /\ active_observer_subscription # 0

\* C20: a direct-send message from a peer that is not the active subscription's
\* peer, or received while there is no active subscription, is dropped: the
\* payload store, the pending buffer, root and sync_handle are unchanged, nothing
\* is finalized or forwarded, and an Unsubscribe is sent to the sender.
C20_UnexpectedSenderDropped ==
    [][(/\ messages' = messages + 1
        /\ active_observer_subscription = 0 \/ warned'.why = "unexpected_sender")
       => /\ UNCHANGED <<block_payload_store, pending_ordered_blocks, root, sync_handle,
                         jobs, finalized, forwarded>>
          /\ warned'.peer \in Peers
          /\ warned'.unsubscribe = warned'.peer]_vars

C20_Witness ==
    /\ warned.why = "unexpected_sender"
    /\ active_observer_subscription # 0
    /\ warned.unsubscribe = warned.peer


\* C21: with publisher_enabled and without observer_enabled the observer only
\* forwards inbound Subscribe and Unsubscribe requests to the publisher: it never
\* waits for an epoch start, processes no direct-send message, creates no
\* subscription, never calls finalize_order, and root, the payload store, the
\* pending buffer and sync_handle never change.
C21_PublisherOnlyForwards ==
    [][(config.publisher_enabled /\ ~config.observer_enabled) =>
          /\ pc' \in {"start", "forwarding"}
          /\ inbound'.forwarded => inbound'.kind \in Requests
          /\ UNCHANGED <<epoch_state, reconfig, messages, active_observer_subscription,
                         ticks, finalized, forwarded, root, block_payload_store,
                         pending_ordered_blocks, sync_handle, jobs>>]_vars

C21_Witness ==
    /\ config.publisher_enabled
    /\ ~config.observer_enabled
    /\ pc = "forwarding"
    /\ inbound.kind = "Subscribe"
    /\ inbound.forwarded

\* C22: in one progress tick a Subscribe RPC is sent to at most
\* max_concurrent_subscriptions candidate peers.
C22_SubscribeWalkCapped == Len(tick.sent) <= max_concurrent_subscriptions


ReplaceRunningJobStep ==
    /\ sync_handle # 0
    /\ jobs[sync_handle].st = "running"
    /\ sync_handle' # 0
    /\ sync_handle' # sync_handle

\* C24: when a commit decision replaces a sync handle, the new sync job is
\* spawned while the previous job is not yet aborted, and the previous job is
\* aborted by the end of the step; a job that was aborted before its sync_to
\* returned stays aborted and never posts a notification.
C24_SpawnBeforeAbort ==
    [][/\ ReplaceRunningJobStep =>
            /\ jobs'[sync_handle'].overlap
            /\ jobs'[sync_handle'].st = "running"
            /\ jobs'[sync_handle].st = "aborted"
       /\ \A j \in 1..Len(jobs) :
            jobs[j].st = "aborted" =>
                /\ jobs'[j].st = "aborted"
                /\ \A i \in 1..Len(notifications') : notifications'[i].job # j]_vars

C24_Witness ==
    /\ Len(jobs) = 2
    /\ jobs[1].st = "aborted"
    /\ jobs[2].overlap
    /\ jobs[2].st = "done"
    /\ Len(notifications) = 1


\* the commit decisions this step passed to the execution client
NewlyForwarded == forwarded' \ forwarded

\* the pending entries on which this step recorded a commit decision
NewlyRecorded ==
    {x \in pending_ordered_blocks' :
        x.cd /\ ~\E y \in pending_ordered_blocks : SameKey(y, x) /\ y.cd}

\* a verified pending block at the key of d, all of whose payloads are stored
VerifiedWithPayloads(d) ==
    \E y \in pending_ordered_blocks :
        SameKey(y, d) /\ y.verified /\ y.id \in block_payload_store

\* C25: a commit decision is recorded on a pending entry only if a verified
\* pending block exists at its (epoch, round) with all payloads stored; it is
\* forwarded when it is processed only if moreover sync_handle is not set; and a
\* decision forwarded by the drain belongs to a recorded entry whose block the
\* same drain passed to finalize_order, after the handle was dropped.
C25_DecisionRecordedAndForwarded ==
    [][/\ \A x \in NewlyRecorded : VerifiedWithPayloads(x)
       /\ messages' # messages =>
            \A d \in NewlyForwarded : sync_handle = 0 /\ VerifiedWithPayloads(d)
       /\ messages' = messages =>
            \A d \in NewlyForwarded :
                /\ sync_handle' = 0
                /\ \E x \in pending_ordered_blocks' :
                     SameKey(x, d) /\ x.id = d.id /\ x.cd /\ x.verified
                /\ \E i \in NewCalls :
                     SameKey(finalized'[i], d) /\ finalized'[i].id = d.id]_vars

C25_Witness ==
    /\ sync_handle # 0
    /\ \E x \in pending_ordered_blocks :
         x.cd /\ x.verified /\ LedgerInfoOf(x) \notin forwarded


\* the step that processes a block payload which was not in the store
PayloadInsertedStep ==
    /\ messages' = messages + 1
    /\ block_payload_store' # block_payload_store

\* C26: processing a block payload only inserts it into the payload store:
\* finalize_order is not called, no commit decision is forwarded or recorded,
\* and the pending buffer, root, epoch_state and sync_handle are unchanged, also
\* when the payload completes a verified pending block.
C26_PayloadOnlyInserts ==
    [][PayloadInsertedStep =>
          /\ block_payload_store \subseteq block_payload_store'
          /\ Cardinality(block_payload_store' \ block_payload_store) = 1
          /\ UNCHANGED <<finalized, forwarded, pending_ordered_blocks, root, epoch_state,
                         sync_handle, jobs, notifications, pc>>]_vars

C26_Witness ==
    /\ messages = 3
    /\ Len(finalized) = 1
    /\ ~finalized[1].payload
    /\ forwarded = {}
    /\ \E x \in pending_ordered_blocks :
         /\ x.verified /\ ~x.cd
         /\ x.id = finalized[1].id
         /\ x.id \in block_payload_store


\* C27: the commit callback with (blocks, ledger_info) removes the payloads of
\* the blocks from the payload store, then the pending entries with key at most
\* ledger_info.(epoch, round); it then overwrites root with ledger_info when
\* ledger_info.epoch = root.epoch and ledger_info.round > root.round, and leaves
\* root as it is when the epochs differ or the round is not greater.
C27_CommitCallback ==
    [][/\ (cb.pc = 1 /\ cb'.pc = 2) =>
            /\ cb.block \notin block_payload_store'
            /\ block_payload_store' = block_payload_store \ {cb.block}
            /\ UNCHANGED <<pending_ordered_blocks, root>>
       /\ (cb.pc = 2 /\ cb'.pc = 3) =>
            /\ pending_ordered_blocks' = {x \in pending_ordered_blocks : KeyLt(cb.li, x)}
            /\ UNCHANGED <<block_payload_store, root>>
       /\ (cb.pc = 3 /\ cb'.pc = 0) =>
            /\ (cb.li.epoch = root.epoch /\ cb.li.round > root.round) => root' = cb.li
            /\ (cb.li.epoch # root.epoch \/ cb.li.round <= root.round) => root' = root
            /\ UNCHANGED <<block_payload_store, pending_ordered_blocks>>]_vars

C27_Witness ==
    /\ cb = IdleCallback
    /\ committed >= 1
    /\ finalized[committed].epoch > root.epoch
    /\ \A x \in pending_ordered_blocks : KeyLt(finalized[committed], x)
    /\ finalized[committed].id \notin block_payload_store


\* C28: an ordered block that is malformed, and an ordered block or commit
\* decision of the current epoch whose proof does not verify, is dropped with no
\* state change: nothing is inserted into or recorded in the pending buffer,
\* root and sync_handle are unchanged, no sync job is spawned, and nothing is
\* finalized or forwarded.
C28_InvalidInputDropped ==
    [][warned'.invalid =>
          UNCHANGED <<pending_ordered_blocks, block_payload_store, root, sync_handle, jobs,
                      notifications, epoch_state, finalized, forwarded>>]_vars

C28_Witness ==
    /\ warned.invalid
    /\ warned.why = "none"
    /\ pending_ordered_blocks # {}


\* C29: while sync_handle is set, a progress tick never terminates the
\* subscription with SubscriptionProgressStopped.
C29_NoProgressCheckInSyncMode ==
    ~(sync_handle # 0 /\ tick.failed /\ tick.error = "SubscriptionProgressStopped")


\* C30: every entry inserted into the pending buffer with verified = false is
\* of an epoch strictly greater than epoch_state.epoch at the insertion, so
\* that an ordered block of a lower epoch is never inserted.
C30_UnverifiedOnlyFutureEpoch ==
    [][\A x \in pending_ordered_blocks' \ pending_ordered_blocks :
          ~x.verified => x.epoch > epoch_state]_vars


\* C31: every commit decision passed to send_commit_msg carries a proof signed
\* by its epoch and was checked under the epoch state of its own epoch when it
\* was received: a decision is recorded on a pending entry, or forwarded when it
\* is processed, only if it is of the current epoch, and the drain forwards only
\* decisions recorded before. A decision of another epoch is neither recorded
\* nor forwarded.
C31_ForwardedDecisionsVerified ==
    [][/\ \A x \in NewlyRecorded : x.epoch = epoch_state /\ Genuine(LedgerInfoOf(x))
       /\ \A d \in NewlyForwarded :
            /\ Genuine(d)
            /\ messages' # messages => d.epoch = epoch_state
            /\ messages' = messages =>
                 \E x \in pending_ordered_blocks : SameKey(x, d) /\ x.id = d.id /\ x.cd]_vars

C31_Witness ==
    /\ forwarded # {}
    /\ sync_handle # 0
    /\ jobs[sync_handle].epoch > epoch_state
    /\ \A d \in forwarded : d.epoch = epoch_state


\* C32: whenever sync_handle is set, root.(epoch, round) is the target of the
\* most recently spawned sync job, whatever commit callbacks run in between.
C32_RootIsSyncTarget ==
    sync_handle # 0 => SameKey(root, jobs[Len(jobs)])


\* the observer is in sync mode and the job its handle guards has synced to the
\* target and posted its notification
SyncCompleted ==
    /\ sync_handle # 0
    /\ \E i \in 1..Len(notifications) :
         notifications[i].job = sync_handle /\ notifications[i].ok

\* C33: sync mode always eventually ends: once the sync job of the latest
\* target has run to completion and posted its notification, and the select
\* loop takes it, sync_handle is eventually unset, unless a further commit
\* decision spawns another sync job.
C33_SyncModeEnds ==
    \A n \in 1..MaxJobs :
        (SyncCompleted /\ Len(jobs) = n) ~> (sync_handle = 0 \/ Len(jobs) # n)


\* the step of process_commit_decision that enters sync mode
EnterSyncStep == sync_handle = 0 /\ sync_handle' # 0

\* C34: the commit callback appears atomic to the observer: however a commit
\* callback for ledger info L interleaves with process_commit_decision, a
\* commit decision at L.(epoch, round), whose block was finalized and committed
\* already, never makes the observer enter sync mode (stated for the steps
\* taken while every pending block is a signed block of the current epoch and
\* the root is of the current epoch, so that only the callback's interleaving
\* is left to decide the outcome).
C34_CommittedDecisionNoSync ==
    [][(/\ EnterSyncStep
        /\ root.epoch = epoch_state
        /\ \A x \in pending_ordered_blocks : GenuineBlock(x) /\ x.epoch = epoch_state) =>
          \A k \in 1..committed :
              ~(SameKey(finalized[k], jobs'[Len(jobs')]) /\ finalized[k].id = jobs'[Len(jobs')].id)]_vars

=============================================================================
